---- MODULE Spec2Model ----
(***************************************************************************)
(* Model of the ESGenius client: the localStorage-backed analysis store    *)
(* and section store (src/lib/storage.ts), the greenwashing score          *)
(* (src/lib/gemini.ts), the PDF viewer's analyze handler and the labels     *)
(* the dashboard card and the analysis popup derive from a score.          *)
(***************************************************************************)
EXTENDS Integers, Sequences, FiniteSets, TLC

\* ------------------------------------------------------------------ bounds
\* report ids handed to the storage functions
ReportIds == {"r1", "r2"}
\* confidence scores a caller passes to saveAnalysisResult
ScoreVals == {0, 55, 56, 60, 100}
\* classification labels
Labels == {"Major", "Minor"}
\* longest flagged_statements array of a model reply (score function)
MaxLen == 7
\* longest flagged_statements array with null entries
MaxMalformed == 3
\* longest flagged_statements array of a model reply (viewer)
MaxFlagged == 4
\* most sections ever created
MaxSections == 3
\* largest value of Date.now()
MaxClock == 3

\* ------------------------------------------------------------ localStorage
\* results[fileId] is undefined: no record under that key
NoRec == [absent |-> TRUE]

AnalysisResult(score, label) == [confidenceScore |-> score, classification |-> label]

\* results[fileId] is a number or a string where a record should be: a value
\* that is truthy and has no confidenceScore
Scalar == [scalar |-> TRUE]

\* JSON.parse(localStorage.getItem(ANALYSIS_RESULTS_KEY) || '{}')
EmptyResults == [id \in ReportIds |-> NoRec]

saveAnalysisResult_keepLabel(blob, fileId, result) ==
    [blob EXCEPT ![fileId] = AnalysisResult(result.confidenceScore, result.classification)]

saveAnalysisResult_clobber(blob, fileId, result) ==
    [id \in ReportIds |->
        IF id = fileId
        THEN AnalysisResult(result.confidenceScore,
                            IF result.confidenceScore > 55 THEN "Major" ELSE "Minor")
        ELSE NoRec]

\* the blob saveAnalysisResult writes back: the caller's label is overwritten
\* from the score, then existingResults[fileId] = result
saveAnalysisResult(blob, fileId, result) ==
    [blob EXCEPT ![fileId] =
        AnalysisResult(result.confidenceScore,
                       IF result.confidenceScore > 55 THEN "Major" ELSE "Minor")]

\* results[fileId] || null: the stored record as it is
getAnalysisResult(blob, fileId) == blob[fileId]

getAllAnalysisResults_raw(blob) == blob

\* every stored record with its label recomputed from its score; assigning
\* result.classification on a number or string raises a TypeError (module
\* code is strict), which the catch turns into {}
getAllAnalysisResults(blob) ==
    IF \E id \in ReportIds : blob[id] = Scalar THEN EmptyResults
    ELSE [id \in ReportIds |->
            IF blob[id] = NoRec THEN NoRec
            ELSE AnalysisResult(blob[id].confidenceScore,
                                IF blob[id].confidenceScore > 55 THEN "Major" ELSE "Minor")]

\* delete results[reportId]
deleteResult(blob, reportId) == [blob EXCEPT ![reportId] = NoRec]

\* ---------------------------------------------------------------- sections
\* a Section of the esg_report_sections blob (its name plays no part here)
Section(sid, reps) == [id |-> sid, reports |-> reps]

\* Array.prototype.includes
Includes(seq, x) == \E i \in 1..Len(seq) : seq[i] = x

\* seq.filter(id => id !== x)
RECURSIVE Without(_, _)
Without(seq, x) ==
    IF seq = <<>> THEN <<>>
    ELSE IF Head(seq) = x THEN Without(Tail(seq), x)
         ELSE <<Head(seq)>> \o Without(Tail(seq), x)

\* sections.find(s => s.id === sectionId): index of the first match, 0 if none
FindSection(secs, sectionId) ==
    IF \E i \in 1..Len(secs) : secs[i].id = sectionId
    THEN CHOOSE i \in 1..Len(secs) :
            /\ secs[i].id = sectionId
            /\ \A j \in 1..(i - 1) : secs[j].id # sectionId
    ELSE 0

\* sections.filter(section => section.id !== sectionId)
RECURSIVE WithoutSection(_, _)
WithoutSection(secs, sectionId) ==
    IF secs = <<>> THEN <<>>
    ELSE IF Head(secs).id = sectionId THEN WithoutSection(Tail(secs), sectionId)
         ELSE <<Head(secs)>> \o WithoutSection(Tail(secs), sectionId)

\* sections.push(newSection) with id section_<Date.now()>
createSection(secs, clock) == Append(secs, Section(clock, <<>>))

deleteSection(secs, sectionId) == WithoutSection(secs, sectionId)

RECURSIVE removeReportFromAllSections_firstOnly(_, _)
removeReportFromAllSections_firstOnly(secs, reportId) ==
    IF secs = <<>> THEN <<>>
    ELSE IF Includes(Head(secs).reports, reportId)
         THEN <<Section(Head(secs).id, Without(Head(secs).reports, reportId))>> \o Tail(secs)
         ELSE <<Head(secs)>> \o removeReportFromAllSections_firstOnly(Tail(secs), reportId)

\* the array removeReportFromAllSections writes back
RECURSIVE removeReportFromAllSections(_, _)
removeReportFromAllSections(secs, reportId) ==
    IF secs = <<>> THEN <<>>
    ELSE <<Section(Head(secs).id, Without(Head(secs).reports, reportId))>>
         \o removeReportFromAllSections(Tail(secs), reportId)

\* the array removeReportFromSection writes back (no write if no such section)
removeReportFromSection(secs, reportId, sectionId) ==
    LET i == FindSection(secs, sectionId)
    IN IF i = 0 THEN secs
       ELSE [secs EXCEPT ![i] = Section(secs[i].id, Without(secs[i].reports, reportId))]

\* the array addReportToSection pushes to: its own copy of the sections, read
\* before removeReportFromAllSections re-read and rewrote the blob
addReportToSection_stale(secs, reportId) == secs

\* what addReportToSection leaves in the blob when every write succeeds
addReportToSection(secs, reportId, sectionId) ==
    LET mine == addReportToSection_stale(secs, reportId)
        i    == FindSection(mine, sectionId)
    IN IF i = 0 THEN secs
       ELSE IF ~Includes(mine[i].reports, reportId)
            THEN [mine EXCEPT ![i] = Section(mine[i].id, Append(mine[i].reports, reportId))]
            ELSE removeReportFromAllSections(secs, reportId)

\* sections.find(section => section.reports.includes(reportId)): 0 if none
getSectionForReport(secs, reportId) ==
    IF \E i \in 1..Len(secs) : Includes(secs[i].reports, reportId)
    THEN CHOOSE i \in 1..Len(secs) :
            /\ Includes(secs[i].reports, reportId)
            /\ \A j \in 1..(i - 1) : ~Includes(secs[j].reports, reportId)
    ELSE 0

\* ------------------------------------------------------------ model replies
\* risk_level of a flagged statement; Other: any value that is neither label
RiskLevels == {"Major", "Minor", "Other"}

\* confidence_score values the model may put in its reply
ModelScores == {20, 60, 90}

\* parsedResult.flagged_statements: absent, or an array of statements, each
\* kept as its risk_level (no other field is read)
NoStatements == [present |-> FALSE, items |-> <<>>]
Statements(seq) == [present |-> TRUE, items |-> seq]

\* every array of at most n statements
RECURSIVE Arrays(_)
Arrays(n) ==
    IF n = 0 THEN {<<>>}
    ELSE Arrays(n - 1) \cup
         {Append(a, r) : a \in {b \in Arrays(n - 1) : Len(b) = n - 1}, r \in RiskLevels}

\* what an entry of the array may be once the reply has parsed: a statement,
\* kept as its risk_level (Other also stands for a statement without a
\* risk_level and for a number, string or boolean entry, whose risk_level
\* reads as undefined), or the JSON value null
Entries == RiskLevels \cup {"Null"}

\* every array of at most n entries, null entries included
RECURSIVE MalformedArrays(_)
MalformedArrays(n) ==
    IF n = 0 THEN {<<>>}
    ELSE MalformedArrays(n - 1) \cup
         {Append(a, e) : a \in {b \in MalformedArrays(n - 1) : Len(b) = n - 1}, e \in Entries}

\* the replies that parse as JSON, with arrays of at most n statements
JsonReplies(n) ==
    [kind : {"json"},
     flagged_statements : {NoStatements} \cup {Statements(a) : a \in Arrays(n)},
     confidence_score : ModelScores,
     classification : Labels]

\* the replies that parse as JSON, with arrays of at most n entries of any kind
MalformedReplies(n) ==
    [kind : {"json"},
     flagged_statements : {NoStatements} \cup {Statements(a) : a \in MalformedArrays(n)},
     confidence_score : ModelScores,
     classification : Labels]

\* a failed request, an empty reply or text that is not JSON
BadReply == [kind |-> "error", flagged_statements |-> NoStatements,
             confidence_score |-> 0, classification |-> "Minor"]

MAJOR_WEIGHT == 15
MINOR_WEIGHT == 5
BASE_SCORE == 10

\* flaggedStatements.filter(statement => statement.risk_level === level).length
CountLevel(items, level) == Len(SelectSeq(items, LAMBDA r : r = level))

calculateGreenwashingScore_uncapped(flaggedStatements) ==
    IF ~flaggedStatements.present \/ Len(flaggedStatements.items) = 0 THEN 0
    ELSE BASE_SCORE + CountLevel(flaggedStatements.items, "Major") * MAJOR_WEIGHT
                    + CountLevel(flaggedStatements.items, "Minor") * MINOR_WEIGHT

calculateGreenwashingScore_capMax(flaggedStatements) ==
    IF ~flaggedStatements.present \/ Len(flaggedStatements.items) = 0 THEN 0
    ELSE LET score == BASE_SCORE
                      + CountLevel(flaggedStatements.items, "Major") * MAJOR_WEIGHT
                      + CountLevel(flaggedStatements.items, "Minor") * MINOR_WEIGHT
         IN IF score > 100 THEN score ELSE 100

calculateGreenwashingScore_skipFirst(flaggedStatements) ==
    IF ~flaggedStatements.present \/ Len(flaggedStatements.items) = 0 THEN 0
    ELSE LET score == BASE_SCORE
                      + CountLevel(Tail(flaggedStatements.items), "Major") * MAJOR_WEIGHT
                      + CountLevel(Tail(flaggedStatements.items), "Minor") * MINOR_WEIGHT
         IN IF score < 100 THEN score ELSE 100

calculateGreenwashingScore_wrap(flaggedStatements) ==
    IF ~flaggedStatements.present \/ Len(flaggedStatements.items) = 0 THEN 0
    ELSE LET score == BASE_SCORE
                      + CountLevel(flaggedStatements.items, "Major") * MAJOR_WEIGHT
                      + CountLevel(flaggedStatements.items, "Minor") * MINOR_WEIGHT
         IN IF score <= 100 THEN score ELSE score - 100

calculateGreenwashingScore(flaggedStatements) ==
    IF ~flaggedStatements.present \/ Len(flaggedStatements.items) = 0 THEN 0
    ELSE LET score == BASE_SCORE
                      + CountLevel(flaggedStatements.items, "Major") * MAJOR_WEIGHT
                      + CountLevel(flaggedStatements.items, "Minor") * MINOR_WEIGHT
         IN IF score < 100 THEN score ELSE 100

\* statement.risk_level inside the filter callback raises a TypeError when the
\* entry is null; the empty array returns before any entry is read
RaisesTypeError(flaggedStatements) ==
    /\ flaggedStatements.present
    /\ Len(flaggedStatements.items) > 0
    /\ \E i \in 1..Len(flaggedStatements.items) : flaggedStatements.items[i] = "Null"

\* what analyzeESGReport returns for a reply that parsed: score and label are
\* overridden only if the reply has a flagged_statements value
analyzeESGReport(parsedResult) ==
    IF parsedResult.flagged_statements.present
    THEN LET confidence_score == calculateGreenwashingScore(parsedResult.flagged_statements)
         IN [parsedResult EXCEPT
                !.confidence_score = confidence_score,
                !.classification = IF confidence_score > 70 THEN "Major" ELSE "Minor"]
    ELSE parsedResult

\* --------------------------------------------------------- labels on screen
\* GeminiESGPopup: the label beside the score
getGreenwashingRisk(score) == IF score > 70 THEN "Major" ELSE "Minor"

\* GeminiESGPopup: the label of "<label> cross checking needed"
getOverallClassification(score) == IF score > 70 THEN "Major" ELSE "Minor"

\* the ESGReport loadReportsAndSections builds for a listed pdf
LoadReport(blob, secs, id) ==
    LET analysis == getAllAnalysisResults(blob)[id]
    IN [analyzed |-> analysis # NoRec,
        classification |-> IF analysis = NoRec THEN "" ELSE analysis.classification,
        confidenceScore |-> IF analysis = NoRec THEN 0 ELSE analysis.confidenceScore,
        sectionId |-> IF getSectionForReport(secs, id) = 0 THEN 0
                      ELSE secs[getSectionForReport(secs, id)].id]

\* ESGCard: the badge, "" if the card shows none
ESGCardClassification(report) ==
    IF report.analyzed
    THEN (IF report.confidenceScore > 55 THEN "Major" ELSE "Minor")
    ELSE report.classification

\* ESGDashboard: the filters of the three built-in groups
majorReports(report) ==
    /\ (report.analyzed /\ report.confidenceScore > 55) \/ report.classification = "Major"
    /\ report.sectionId = 0

minorReports(report) ==
    /\ \/ (report.analyzed /\ report.confidenceScore <= 55 /\ report.classification # "Major")
       \/ (report.classification = "Minor" /\ ~report.analyzed)
    /\ report.sectionId = 0

uncategorizedReports(report) ==
    report.classification = "" /\ ~report.analyzed /\ report.sectionId = 0

\* ESGDashboard: reports.filter(report => report.sectionId === sectionId)
getReportsForSection(report, sectionId) == report.sectionId = sectionId

\* how many times the dashboard renders the report: once under every section
\* of the loaded list whose reports it is among, and once in every built-in
\* group whose filter it passes
RenderCount(secs, report) ==
    Cardinality({i \in 1..Len(secs) : getReportsForSection(report, secs[i].id)})
    + (IF majorReports(report) THEN 1 ELSE 0)
    + (IF minorReports(report) THEN 1 ELSE 0)
    + (IF uncategorizedReports(report) THEN 1 ELSE 0)

\* ------------------------------------------------------------------- state
VARIABLES
    results,        \* localStorage[esg_analysis_results], parsed
    sections,       \* localStorage[esg_report_sections], parsed
    analysisCache,  \* localStorage[gemini_analysis_<fileId>], parsed, per report
    now,            \* Date.now()
    lastOp,         \* the call that ran last, its arguments and outcome
    ret,            \* what that call returned
    response,       \* the model reply handed to the score function
    blocked,        \* reading window.localStorage raises (storage is disabled)
    stored,         \* what JSON.parse of the esg_analysis_results text gives
    fault,          \* the localStorage access that raised during the last call
    mounted,        \* a PDFViewer opened from a card is on screen
    fileId,         \* PDFViewer's fileId prop (selectedReport.id)
    pdfContext,     \* PDFViewer.pdfContext holds extracted text
    geminiOutput,   \* PDFViewer.geminiOutput: the analysis the popup shows
    isAnalyzing,    \* PDFViewer.isAnalyzing
    isExtracting,   \* PDFViewer.isExtracting
    analysisError,  \* PDFViewer.analysisError is set
    pc,             \* the await a PDFViewer handler is suspended at
    pdfs,           \* server: db.pdfs of db/pdfs.json, the metadata entries
    acked,          \* server: the uploads it has answered with HTTP 200
    uploaded,       \* UploadModal: the upload whose 200 it hands to onSuccess
    reports,        \* ESGDashboard.reports
    selectedReport, \* ESGDashboard.selectedReport
    currentView,    \* ESGDashboard.currentView, as the upload callback sets it
    isOpen,         \* AIChatbot.isOpen
    messages,       \* AIChatbot.messages
    isTyping,       \* AIChatbot.isTyping
    request         \* AIChatbot: the callDeepSeek call handleSend awaits

server == <<pdfs, acked>>
dashboard == <<uploaded, reports, selectedReport, currentView>>
chat == <<isOpen, messages, isTyping, request>>
others == <<server, dashboard, chat>>

viewer == <<mounted, fileId, pdfContext, geminiOutput, isAnalyzing, isExtracting,
            analysisError, pc>>

vars == <<results, sections, analysisCache, now, lastOp, ret, response,
          blocked, stored, fault, viewer, others>>

\* no upload, no report, no request
NoUpload == 0
NoReport == [absent |-> TRUE]
NoRequest == [absent |-> TRUE]

NoOp == [op |-> "none", reportId |-> "", sectionId |-> 0, score |-> 0,
         label |-> "", ok |-> TRUE]
Op(name, rid, sid, sc, lb, ok) ==
    [op |-> name, reportId |-> rid, sectionId |-> sid, score |-> sc,
     label |-> lb, ok |-> ok]

NoRet == [kind |-> "void"]
RetRecord(r) == [kind |-> "record", value |-> r]
RetMapping(m) == [kind |-> "mapping", value |-> m]

\* ------------------------------------------------- analysis store: actions
\* JSON.parse of the blob's text: an object (its entries are in results), a
\* SyntaxError, the value null, or an array (taken as the empty array)
StoredShapes == {"object", "invalid", "null", "array"}

\* localStorage.getItem and JSON.parse both return
Parses == ~blocked /\ stored # "invalid"

\* what getAnalysisResult(id) returns: results[fileId] raises on null and is
\* undefined on an array; every exception is logged and null returned
ReadOne(id) ==
    IF Parses /\ stored = "object" THEN getAnalysisResult(results, id) ELSE NoRec

\* what getAllAnalysisResults() returns: Object.keys raises on null and is
\* empty on the empty array, which is then returned as it is: a value
\* without keys, kept as the empty mapping
ReadAll ==
    IF Parses /\ stored = "object" THEN getAllAnalysisResults(results) ELSE EmptyResults

\* saveAnalysisResult(fileId, result); w: localStorage.setItem succeeds.
\* existingResults[fileId] = result raises on null; on an array it sets a
\* property that JSON.stringify leaves out, so the text written is the old one
SaveAnalysisResult_torn(id, result, w) ==
    /\ blocked => ~w
    /\ results' = IF Parses /\ stored = "object"
                  THEN saveAnalysisResult(results, id, result) ELSE results
    /\ lastOp' = Op("saveAnalysisResult", id, 0, result.confidenceScore,
                    result.classification, Parses /\ stored # "null" /\ w)
    /\ fault' = IF ~Parses \/ stored = "null" THEN "read"
                ELSE IF ~w THEN "write" ELSE "none"
    /\ ret' = NoRet
    /\ UNCHANGED <<sections, analysisCache, now, response, blocked, stored, viewer, others>>

SaveAnalysisResult(id, result, w) ==
    /\ blocked => ~w
    /\ results' = IF Parses /\ stored = "object" /\ w
                  THEN saveAnalysisResult(results, id, result) ELSE results
    /\ lastOp' = Op("saveAnalysisResult", id, 0, result.confidenceScore,
                    result.classification, Parses /\ stored # "null" /\ w)
    /\ fault' = IF ~Parses \/ stored = "null" THEN "read"
                ELSE IF ~w THEN "write" ELSE "none"
    /\ ret' = NoRet
    /\ UNCHANGED <<sections, analysisCache, now, response, blocked, stored, viewer, others>>

GetAnalysisResult(id) ==
    /\ ret' = RetRecord(ReadOne(id))
    /\ lastOp' = Op("getAnalysisResult", id, 0, 0, "", TRUE)
    /\ fault' = IF ~Parses \/ stored = "null" THEN "read" ELSE "none"
    /\ UNCHANGED <<results, sections, analysisCache, now, response, blocked, stored,
                   viewer, others>>

GetAllAnalysisResults ==
    /\ ret' = RetMapping(ReadAll)
    /\ lastOp' = Op("getAllAnalysisResults", "", 0, 0, "", TRUE)
    /\ fault' = IF ~Parses \/ stored = "null" THEN "read" ELSE "none"
    /\ UNCHANGED <<results, sections, analysisCache, now, response, blocked, stored,
                   viewer, others>>

\* localStorage.removeItem(ANALYSIS_RESULTS_KEY); w: it succeeds, which it
\* does unless storage is disabled. An exception is logged and swallowed, so
\* the call returns normally either way
ClearAllAnalysisResults(w) ==
    /\ w = ~blocked
    /\ results' = IF w THEN EmptyResults ELSE results
    /\ stored' = IF w THEN "object" ELSE stored
    /\ lastOp' = Op("clearAllAnalysisResults", "", 0, 0, "", TRUE)
    /\ fault' = IF w THEN "none" ELSE "write"
    /\ ret' = NoRet
    /\ UNCHANGED <<sections, analysisCache, now, response, blocked, viewer, others>>

ResetAndUpdateAllScores_keep(w) ==
    /\ w = ~blocked
    /\ lastOp' = Op("resetAndUpdateAllScores", "", 0, 0, "", TRUE)
    /\ fault' = IF w THEN "none" ELSE "write"
    /\ ret' = NoRet
    /\ UNCHANGED <<results, stored, sections, analysisCache, now, response, blocked,
                   viewer, others>>

ResetAndUpdateAllScores(w) ==
    /\ w = ~blocked
    /\ results' = IF w THEN EmptyResults ELSE results
    /\ stored' = IF w THEN "object" ELSE stored
    /\ lastOp' = Op("resetAndUpdateAllScores", "", 0, 0, "", TRUE)
    /\ fault' = IF w THEN "none" ELSE "write"
    /\ ret' = NoRet
    /\ UNCHANGED <<sections, analysisCache, now, response, blocked, viewer, others>>

\* what deleteReport found under results[reportId]: the label of the record,
\* "Scalar" for a value that is not a record, "" for nothing
Found(reportId) ==
    IF ~(Parses /\ stored = "object") \/ results[reportId] = NoRec THEN ""
    ELSE IF results[reportId] = Scalar THEN "Scalar"
    ELSE results[reportId].classification

\* the id of the first section deleteReport's report is a member of, 0 if none
FoundIn(reportId) ==
    IF getSectionForReport(sections, reportId) = 0 THEN 0
    ELSE sections[getSectionForReport(sections, reportId)].id

DeleteReport_strict(reportId, w1, w2) ==
    LET readable == Parses /\ stored # "null"
        has == readable /\ stored = "object" /\ results[reportId] # NoRec
        wroteResults == has /\ w1
        reachedSections == has /\ w1
    IN /\ blocked => (~w1 /\ ~w2)
       /\ results' = IF wroteResults THEN deleteResult(results, reportId) ELSE results
       /\ sections' = IF reachedSections /\ w2
                      THEN removeReportFromAllSections(sections, reportId)
                      ELSE sections
       /\ lastOp' = Op("deleteReport", reportId, FoundIn(reportId), 0, Found(reportId),
                       reachedSections /\ w2)
       /\ fault' = IF ~readable THEN "read"
                   ELSE IF ~has \/ (reachedSections /\ w2) THEN "none" ELSE "write"
       /\ ret' = NoRet
       /\ UNCHANGED <<analysisCache, now, response, blocked, stored, viewer, others>>

DeleteReport_resultsOnly(reportId, w1, w2) ==
    LET readable == Parses /\ stored # "null"
        has == readable /\ stored = "object" /\ results[reportId] # NoRec
        wroteResults == has /\ w1
        reachedSections == readable /\ (~has \/ w1)
    IN /\ blocked => (~w1 /\ ~w2)
       /\ results' = IF wroteResults THEN deleteResult(results, reportId) ELSE results
       /\ lastOp' = Op("deleteReport", reportId, FoundIn(reportId), 0, Found(reportId),
                       reachedSections /\ w2)
       /\ fault' = IF ~readable THEN "read"
                   ELSE IF reachedSections /\ w2 THEN "none" ELSE "write"
       /\ ret' = NoRet
       /\ UNCHANGED <<sections, analysisCache, now, response, blocked, stored, viewer, others>>

\* deleteReport(reportId); w1: the write of the analysis blob succeeds,
\* w2: the write of the sections blob succeeds. results[reportId] raises on
\* null and is undefined on an array. lastOp.label: what was found,
\* lastOp.sectionId: the section the report was in
DeleteReport(reportId, w1, w2) ==
    LET readable == Parses /\ stored # "null"
        has == readable /\ stored = "object" /\ results[reportId] # NoRec
        wroteResults == has /\ w1
        reachedSections == readable /\ (~has \/ w1)
    IN /\ blocked => (~w1 /\ ~w2)
       /\ results' = IF wroteResults THEN deleteResult(results, reportId) ELSE results
       /\ sections' = IF reachedSections /\ w2
                      THEN removeReportFromAllSections(sections, reportId)
                      ELSE sections
       /\ lastOp' = Op("deleteReport", reportId, FoundIn(reportId), 0, Found(reportId),
                       reachedSections /\ w2)
       /\ fault' = IF ~readable THEN "read"
                   ELSE IF reachedSections /\ w2 THEN "none" ELSE "write"
       /\ ret' = NoRet
       /\ UNCHANGED <<analysisCache, now, response, blocked, stored, viewer, others>>

\* --------------------------------------------------- section store: actions
Tick ==
    /\ now < MaxClock
    /\ now' = now + 1
    /\ UNCHANGED <<results, sections, analysisCache, lastOp, ret, response,
                   blocked, stored, fault, viewer, others>>

CreateSection(w) ==
    /\ Len(sections) < MaxSections
    /\ sections' = IF w THEN createSection(sections, now) ELSE sections
    /\ blocked => ~w
    /\ fault' = IF w THEN "none" ELSE "write"
    /\ lastOp' = Op("createSection", "", now, 0, "", w)
    /\ ret' = NoRet
    /\ UNCHANGED <<results, analysisCache, now, response, blocked, stored, viewer, others>>

DeleteSection(sectionId, w) ==
    /\ sections' = IF w THEN deleteSection(sections, sectionId) ELSE sections
    /\ blocked => ~w
    /\ fault' = IF w THEN "none" ELSE "write"
    /\ lastOp' = Op("deleteSection", "", sectionId, 0, "", w)
    /\ ret' = NoRet
    /\ UNCHANGED <<results, analysisCache, now, response, blocked, stored, viewer, others>>

\* w1: the write inside removeReportFromAllSections succeeds; w2: the write
\* of addReportToSection's own array succeeds
AddReportToSection(reportId, sectionId, w1, w2) ==
    LET i == FindSection(sections, sectionId)
        pushes == i # 0 /\ ~Includes(addReportToSection_stale(sections, reportId)[i].reports,
                                     reportId)
    IN /\ sections' =
            IF i = 0 \/ ~w1 THEN sections
            ELSE IF pushes /\ ~w2 THEN removeReportFromAllSections(sections, reportId)
            ELSE addReportToSection(sections, reportId, sectionId)
       /\ blocked => (~w1 /\ ~w2)
       /\ fault' = IF i = 0 \/ (w1 /\ (~pushes \/ w2)) THEN "none" ELSE "write"
       /\ lastOp' = Op("addReportToSection", reportId, sectionId, 0, "",
                       i = 0 \/ (w1 /\ (~pushes \/ w2)))
       /\ ret' = NoRet
       /\ UNCHANGED <<results, analysisCache, now, response, blocked, stored, viewer, others>>

RemoveReportFromSection(reportId, sectionId, w) ==
    LET i == FindSection(sections, sectionId)
    IN /\ sections' = IF i # 0 /\ w
                      THEN removeReportFromSection(sections, reportId, sectionId)
                      ELSE sections
       /\ blocked => ~w
       /\ fault' = IF i = 0 \/ w THEN "none" ELSE "write"
       /\ lastOp' = Op("removeReportFromSection", reportId, sectionId, 0, "", i = 0 \/ w)
       /\ ret' = NoRet
       /\ UNCHANGED <<results, analysisCache, now, response, blocked, stored, viewer, others>>

\* lastOp.sectionId: the section the report was in (wasInSection), 0 if none
RemoveReportFromAllSections(reportId, w) ==
    /\ sections' = IF w THEN removeReportFromAllSections(sections, reportId) ELSE sections
    /\ blocked => ~w
    /\ fault' = IF w THEN "none" ELSE "write"
    /\ lastOp' = Op("removeReportFromAllSections", reportId, FoundIn(reportId), 0, "", w)
    /\ ret' = NoRet
    /\ UNCHANGED <<results, analysisCache, now, response, blocked, stored, viewer, others>>

\* ---------------------------------------------------------- specifications
\* no analysis shown, cached or returned
NoOutput == [absent |-> TRUE]

\* the fields of an analysis that the viewer, the popup labels and the saved
\* record read
Shown(output) == [confidence_score |-> output.confidence_score,
                  classification |-> output.classification]

IdleReply == BadReply

\* a server started on an empty db directory, a dashboard and a chat window
\* before their first render
InitOthers ==
    /\ pdfs = <<>>
    /\ acked = {}
    /\ uploaded = NoUpload
    /\ reports = <<>>
    /\ selectedReport = NoReport
    /\ currentView = "dashboard"
    /\ isOpen = FALSE
    /\ messages = <<>>
    /\ isTyping = FALSE
    /\ request = NoRequest

\* everything but the analysis blob, on a fresh browser profile
InitRest ==
    /\ sections = <<>>
    /\ analysisCache = [id \in ReportIds |-> NoOutput]
    /\ now = 1
    /\ lastOp = NoOp
    /\ ret = NoRet
    /\ response = IdleReply
    /\ blocked = FALSE
    /\ stored = "object"
    /\ fault = "none"
    /\ mounted = FALSE
    /\ fileId = ""
    /\ pdfContext = FALSE
    /\ geminiOutput = NoOutput
    /\ isAnalyzing = FALSE
    /\ isExtracting = FALSE
    /\ analysisError = FALSE
    /\ pc = "idle"
    /\ InitOthers

Init ==
    /\ results = EmptyResults
    /\ InitRest

\* a browser whose analysis blob was written by an earlier build of the
\* application, whose labels need not agree with today's threshold
InitLegacy ==
    /\ results \in [ReportIds -> {NoRec} \cup
                     {AnalysisResult(s, l) : s \in ScoreVals, l \in Labels}]
    /\ InitRest

SaveAny == \E id \in ReportIds, s \in ScoreVals, l \in Labels, w \in BOOLEAN :
               SaveAnalysisResult(id, AnalysisResult(s, l), w)
GetAny == \E id \in ReportIds : GetAnalysisResult(id)
ClearAny == \E w \in BOOLEAN : ClearAllAnalysisResults(w)
ResetAny == \E w \in BOOLEAN : ResetAndUpdateAllScores(w)
DeleteAny == \E id \in ReportIds, w1, w2 \in BOOLEAN : DeleteReport(id, w1, w2)

NextStore ==
    \/ SaveAny
    \/ GetAny
    \/ GetAllAnalysisResults
    \/ ClearAny
    \/ ResetAny
    \/ DeleteAny

\* the analysis store on a fresh browser profile
Spec == Init /\ [][NextStore]_vars

\* the analysis store on a profile that holds legacy records
SpecLegacy == InitLegacy /\ [][NextStore]_vars

SectionIds == 1..MaxClock

CreateAny == \E w \in BOOLEAN : CreateSection(w)
DeleteSectionAny == \E sid \in SectionIds, w \in BOOLEAN : DeleteSection(sid, w)
AddAny == \E id \in ReportIds, sid \in SectionIds, w1, w2 \in BOOLEAN :
              AddReportToSection(id, sid, w1, w2)
RemoveFromAny == \E id \in ReportIds, sid \in SectionIds, w \in BOOLEAN :
                     RemoveReportFromSection(id, sid, w)
RemoveAllAny == \E id \in ReportIds, w \in BOOLEAN : RemoveReportFromAllSections(id, w)

NextSections ==
    \/ Tick
    \/ CreateAny
    \/ DeleteSectionAny
    \/ AddAny
    \/ RemoveFromAny
    \/ RemoveAllAny
    \/ DeleteAny

\* the section store on a fresh browser profile
SpecSections == Init /\ [][NextSections]_vars

\* a browser in which some reports have been analyzed and saved
InitAnalyzed ==
    /\ results \in [ReportIds -> {NoRec, AnalysisResult(60, "Major")}]
    /\ InitRest

\* a browser whose analysis blob holds records on either side of the
\* threshold, with labels that need not agree with it
InitDashboard ==
    /\ results \in [ReportIds -> {NoRec, AnalysisResult(55, "Major"),
                                   AnalysisResult(56, "Minor")}]
    /\ InitRest

NextDashboard ==
    \/ Tick
    \/ CreateAny
    \/ AddAny

\* what the dashboard is given to render: records and sections
SpecDashboard == InitDashboard /\ [][NextDashboard]_vars

NextDeletion ==
    \/ Tick
    \/ CreateAny
    \/ AddAny
    \/ DeleteAny

\* reports put into sections and deleted, over analyzed reports
SpecDeletion == InitAnalyzed /\ [][NextDeletion]_vars

\* ------------------------------------------------- score function: actions
RetNumber(n) == [kind |-> "number", value |-> n]
RetAnalysis(o) == [kind |-> "analysis", value |-> o]
RetThrow == [kind |-> "throw"]

\* calculateGreenwashingScore(parsedResult.flagged_statements)
CalculateGreenwashingScore ==
    /\ response.kind = "json"
    /\ ret' = IF RaisesTypeError(response.flagged_statements) THEN RetThrow
              ELSE RetNumber(calculateGreenwashingScore(response.flagged_statements))
    /\ lastOp' = Op("calculateGreenwashingScore", "", 0, 0, "",
                    ~RaisesTypeError(response.flagged_statements))
    /\ UNCHANGED <<results, sections, analysisCache, now, response, blocked, stored,
                   fault, viewer, others>>

\* analyzeESGReport on a reply that parsed; a TypeError of the score function
\* lands in the catch around JSON.parse and is rethrown as a malformed reply
AnalyzeESGReport ==
    /\ response.kind = "json"
    /\ ret' = IF RaisesTypeError(response.flagged_statements) THEN RetThrow
              ELSE RetAnalysis(analyzeESGReport(response))
    /\ lastOp' = Op("analyzeESGReport", "", 0, 0, "",
                    ~RaisesTypeError(response.flagged_statements))
    /\ UNCHANGED <<results, sections, analysisCache, now, response, blocked, stored,
                   fault, viewer, others>>

InitAnalyze ==
    /\ results = EmptyResults
    /\ sections = <<>>
    /\ analysisCache = [id \in ReportIds |-> NoOutput]
    /\ now = 1
    /\ lastOp = NoOp
    /\ ret = NoRet
    /\ response \in JsonReplies(MaxLen)
    /\ blocked = FALSE
    /\ stored = "object"
    /\ fault = "none"
    /\ mounted = FALSE
    /\ fileId = ""
    /\ pdfContext = FALSE
    /\ geminiOutput = NoOutput
    /\ isAnalyzing = FALSE
    /\ isExtracting = FALSE
    /\ analysisError = FALSE
    /\ pc = "idle"
    /\ InitOthers

NextAnalyze ==
    \/ CalculateGreenwashingScore
    \/ AnalyzeESGReport

\* the score function and analyzeESGReport applied to every bounded reply
SpecAnalyze == InitAnalyze /\ [][NextAnalyze]_vars

\* a reply whose flagged_statements array holds entries of any kind
InitMalformed ==
    /\ results = EmptyResults
    /\ sections = <<>>
    /\ analysisCache = [id \in ReportIds |-> NoOutput]
    /\ now = 1
    /\ lastOp = NoOp
    /\ ret = NoRet
    /\ response \in MalformedReplies(MaxMalformed)
    /\ blocked = FALSE
    /\ stored = "object"
    /\ fault = "none"
    /\ mounted = FALSE
    /\ fileId = ""
    /\ pdfContext = FALSE
    /\ geminiOutput = NoOutput
    /\ isAnalyzing = FALSE
    /\ isExtracting = FALSE
    /\ analysisError = FALSE
    /\ pc = "idle"
    /\ InitOthers

\* the score function and analyzeESGReport applied to replies with null entries
SpecMalformed == InitMalformed /\ [][NextAnalyze]_vars

\* ------------------------------------------------------- PDFViewer: actions
\* reports the user opens in the viewer
ViewedReports == {"r1"}

store == <<results, sections, analysisCache, now, lastOp, ret, response,
           blocked, stored, fault>>

\* handleCardClick, then PDFViewer mounts: the saved analysis of the report
\* is loaded and, having no text, the viewer starts extracting it
HandleCardClick(id) ==
    /\ ~mounted
    /\ pc = "idle"
    /\ mounted' = TRUE
    /\ fileId' = id
    /\ pdfContext' = FALSE
    /\ geminiOutput' = analysisCache[id]
    /\ isAnalyzing' = FALSE
    /\ isExtracting' = TRUE
    /\ analysisError' = FALSE
    /\ pc' = "extractOnLoad"
    /\ UNCHANGED <<others, store>>

\* extractPdfTextOnLoad resumes; found: extractTextFromUrl resolved
ExtractOnLoadDone(found) ==
    /\ pc = "extractOnLoad"
    /\ pc' = "idle"
    /\ pdfContext' = (mounted /\ found)
    /\ isExtracting' = FALSE
    /\ UNCHANGED <<others, store, mounted, fileId, geminiOutput, isAnalyzing, analysisError>>

\* the Analyze button, enabled by getButtonState
HandleAnalyzeClick ==
    /\ mounted
    /\ ~isExtracting
    /\ ~isAnalyzing
    /\ pc = "idle"
    /\ IF pdfContext
       THEN /\ isAnalyzing' = TRUE
            /\ analysisError' = FALSE
            /\ geminiOutput' = NoOutput
            /\ pc' = "analyzing"
            /\ UNCHANGED isExtracting
       ELSE /\ isExtracting' = TRUE
            /\ pc' = "extracting"
            /\ UNCHANGED <<isAnalyzing, analysisError, geminiOutput>>
    /\ UNCHANGED <<others, store, mounted, fileId, pdfContext>>

\* a handler whose failed extraction leaves the flag set
ExtractDone_stuck(found) ==
    /\ pc = "extracting"
    /\ IF found
       THEN /\ pdfContext' = mounted
            /\ isExtracting' = FALSE
            /\ isAnalyzing' = mounted
            /\ analysisError' = FALSE
            /\ geminiOutput' = NoOutput
            /\ pc' = "analyzing"
       ELSE /\ isExtracting' = mounted
            /\ pc' = "idle"
            /\ UNCHANGED <<pdfContext, isAnalyzing, analysisError, geminiOutput>>
    /\ UNCHANGED <<others, store, mounted, fileId>>

\* handleAnalyzeClick resumes after extractTextFromUrl; found: it resolved
ExtractDone(found) ==
    /\ pc = "extracting"
    /\ IF found
       THEN /\ pdfContext' = mounted
            /\ isExtracting' = FALSE
            /\ isAnalyzing' = mounted
            /\ analysisError' = FALSE
            /\ geminiOutput' = NoOutput
            /\ pc' = "analyzing"
       ELSE /\ isExtracting' = FALSE
            /\ pc' = "idle"
            /\ UNCHANGED <<pdfContext, isAnalyzing, analysisError, geminiOutput>>
    /\ UNCHANGED <<others, store, mounted, fileId>>

\* handleAnalyzeClick resumes after analyzeESGReport; reply: what the model
\* sent; w1: the write of gemini_analysis_<fileId> succeeds; w2: the write
\* inside saveAnalysisResult succeeds
AnalyzeDone(reply, w1, w2) ==
    /\ pc = "analyzing"
    /\ pc' = "idle"
    /\ isAnalyzing' = FALSE
    /\ IF reply.kind = "error"
       THEN /\ analysisError' = mounted
            /\ lastOp' = Op("handleAnalyzeClick", fileId, 0, 0, "", FALSE)
            /\ fault' = "none"
            /\ UNCHANGED <<geminiOutput, analysisCache, results>>
       ELSE LET output == Shown(analyzeESGReport(reply))
            IN /\ geminiOutput' = IF mounted THEN output ELSE geminiOutput
               /\ analysisCache' = IF w1 THEN [analysisCache EXCEPT ![fileId] = output]
                                   ELSE analysisCache
               /\ results' = IF w1 /\ w2
                             THEN saveAnalysisResult(results, fileId,
                                      AnalysisResult(output.confidence_score,
                                                     output.classification))
                             ELSE results
               /\ lastOp' = Op("handleAnalyzeClick", fileId, 0, output.confidence_score,
                               output.classification, w1 /\ w2)
               /\ fault' = IF w1 /\ w2 THEN "none" ELSE "write"
               /\ UNCHANGED analysisError
    /\ ret' = NoRet
    /\ UNCHANGED <<others, sections, now, response, blocked, stored, mounted, fileId,
                   pdfContext, isExtracting>>

\* the popup's close button
ClosePopup ==
    /\ mounted
    /\ geminiOutput # NoOutput
    /\ geminiOutput' = NoOutput
    /\ UNCHANGED <<others, store, mounted, fileId, pdfContext, isAnalyzing, isExtracting,
                   analysisError, pc>>

\* the close button of the error box
DismissError ==
    /\ mounted
    /\ analysisError
    /\ analysisError' = FALSE
    /\ UNCHANGED <<others, store, mounted, fileId, pdfContext, geminiOutput, isAnalyzing,
                   isExtracting, pc>>

\* handleBackToDashboard: the viewer unmounts; a suspended handler keeps the
\* fileId it was started with and still runs to its end
HandleBackToDashboard ==
    /\ mounted
    /\ mounted' = FALSE
    /\ pdfContext' = FALSE
    /\ geminiOutput' = NoOutput
    /\ isAnalyzing' = FALSE
    /\ isExtracting' = FALSE
    /\ analysisError' = FALSE
    /\ UNCHANGED <<others, store, fileId, pc>>

\* the analyses the bounded replies lead to, and one reply for each of them
\* (AnalyzeDone reads a reply through Shown(analyzeESGReport(reply)) alone)
ViewerOutputs == {Shown(analyzeESGReport(r)) : r \in JsonReplies(MaxFlagged)}
ViewerReplies ==
    {CHOOSE r \in JsonReplies(MaxFlagged) : Shown(analyzeESGReport(r)) = o : o \in ViewerOutputs}

NextViewer ==
    \/ \E id \in ViewedReports : HandleCardClick(id)
    \/ \E found \in BOOLEAN : ExtractOnLoadDone(found)
    \/ HandleAnalyzeClick
    \/ \E found \in BOOLEAN : ExtractDone(found)
    \/ \E reply \in ViewerReplies \cup {BadReply}, w1, w2 \in BOOLEAN :
          AnalyzeDone(reply, w1, w2)
    \/ ClosePopup
    \/ DismissError
    \/ HandleBackToDashboard

\* the viewer on a fresh browser profile
SpecViewer == Init /\ [][NextViewer]_vars

\* ------------------------------------------------- dashboard: Reset Analysis
ResetAnalysisClick_keep(w) ==
    /\ ~mounted
    /\ w = ~blocked
    /\ lastOp' = Op("resetAnalysisClick", "", 0, 0, "", TRUE)
    /\ fault' = IF w THEN "none" ELSE "write"
    /\ ret' = NoRet
    /\ mounted' = FALSE
    /\ fileId' = ""
    /\ pdfContext' = FALSE
    /\ geminiOutput' = NoOutput
    /\ isAnalyzing' = FALSE
    /\ isExtracting' = FALSE
    /\ analysisError' = FALSE
    /\ pc' = "idle"
    /\ UNCHANGED <<others, results, stored, sections, analysisCache, now, response, blocked>>

\* the Reset Analysis button of the dashboard view: resetAndUpdateAllScores(),
\* toast.success(...), window.location.reload(). w: removeItem succeeds.
\* lastOp.ok: the handler reported success to the user. The reload drops
\* every pending continuation and component state
ResetAnalysisClick(w) ==
    /\ ~mounted
    /\ w = ~blocked
    /\ results' = IF w THEN EmptyResults ELSE results
    /\ stored' = IF w THEN "object" ELSE stored
    /\ lastOp' = Op("resetAnalysisClick", "", 0, 0, "", TRUE)
    /\ fault' = IF w THEN "none" ELSE "write"
    /\ ret' = NoRet
    /\ mounted' = FALSE
    /\ fileId' = ""
    /\ pdfContext' = FALSE
    /\ geminiOutput' = NoOutput
    /\ isAnalyzing' = FALSE
    /\ isExtracting' = FALSE
    /\ analysisError' = FALSE
    /\ pc' = "idle"
    /\ UNCHANGED <<others, sections, analysisCache, now, response, blocked>>

ResetClickAny == \E w \in BOOLEAN : ResetAnalysisClick(w)

NextReset ==
    \/ NextViewer
    \/ ResetClickAny

\* the viewer and the Reset Analysis button on a fresh browser profile
SpecReset == Init /\ [][NextReset]_vars

\* ---------------------------------------- analysis store on a damaged profile
\* a browser whose storage may be disabled and whose analysis blob may hold
\* any JSON text: records, values that are not records, or no mapping at all
InitCorrupt ==
    /\ blocked \in BOOLEAN
    /\ stored \in StoredShapes
    /\ results \in [ReportIds -> {NoRec, Scalar} \cup
                     {AnalysisResult(s, l) : s \in ScoreVals, l \in Labels}]
    /\ stored # "object" => results = EmptyResults
    /\ sections = <<>>
    /\ analysisCache = [id \in ReportIds |-> NoOutput]
    /\ now = 1
    /\ lastOp = NoOp
    /\ ret = NoRet
    /\ response = IdleReply
    /\ fault = "none"
    /\ mounted = FALSE
    /\ fileId = ""
    /\ pdfContext = FALSE
    /\ geminiOutput = NoOutput
    /\ isAnalyzing = FALSE
    /\ isExtracting = FALSE
    /\ analysisError = FALSE
    /\ pc = "idle"
    /\ InitOthers

NextCorrupt ==
    \/ NextStore
    \/ ResetClickAny

SpecCorrupt == InitCorrupt /\ [][NextCorrupt]_vars

\* the replies an analysis run ends with: the model call fails, or answers
\* with no flagged statement
RunReplies == JsonReplies(0) \cup {BadReply}

AnalyzeDoneAny ==
    \E reply \in RunReplies, w1, w2 \in BOOLEAN : AnalyzeDone(reply, w1, w2)

NextViewerRun ==
    \/ \E id \in ViewedReports : HandleCardClick(id)
    \/ \E found \in BOOLEAN : ExtractOnLoadDone(found)
    \/ HandleAnalyzeClick
    \/ \E found \in BOOLEAN : ExtractDone(found)
    \/ AnalyzeDoneAny
    \/ ClosePopup
    \/ DismissError
    \/ HandleBackToDashboard

\* a promise a handler awaits is settled in the end (extraction resolves or
\* rejects, the model call answers or fails), and its continuation then runs
ViewerFairness ==
    /\ WF_vars(\E found \in BOOLEAN : ExtractOnLoadDone(found))
    /\ WF_vars(\E found \in BOOLEAN : ExtractDone(found))
    /\ WF_vars(AnalyzeDoneAny)

\* the viewer, with every awaited promise settling
SpecViewerFair == Init /\ [][NextViewerRun]_vars /\ ViewerFairness

NextReopen ==
    \/ NextViewer
    \/ DeleteAny

\* reports that are analysed in the viewer, deleted from the card menu and
\* opened again
SpecReopen == Init /\ [][NextReopen]_vars

\* ------------------------------------------------------------ server: actions
\* uploads the server is sent
MaxUploads == 3

\* Number.prototype.toString: the decimal digits of n
RECURSIVE toString(_)
toString(n) == IF n < 10 THEN <<n>> ELSE toString(n \div 10) \o <<n % 10>>

\* the metadata entry of the n-th upload; file stands for the uploaded file
PdfData(n) == [id |-> toString(now), file |-> n]

\* readDB: the entries of the file, or none when reading or parsing it raised
readDB(r) == IF r THEN pdfs ELSE <<>>

\* writeDB: the file holds data afterwards, unless writing it raised
writeDB(data, w) == IF w THEN data ELSE pdfs

RetStatus(code) == [kind |-> "status", status |-> code]
RetList(code, list) == [kind |-> "list", status |-> code, list |-> list]

\* POST /api/upload with a file: the entry is pushed on what readDB gave and
\* the whole list is written back; the answer is 200 whatever writeDB returned
Upload(r, w) ==
    /\ Cardinality(acked) < MaxUploads
    /\ LET n == Cardinality(acked) + 1
           db == Append(readDB(r), PdfData(n))
       IN /\ pdfs' = writeDB(db, w)
          /\ acked' = acked \cup {n}
          /\ uploaded' = n
    /\ lastOp' = Op("upload", "", 0, 0, "", TRUE)
    /\ ret' = RetStatus(200)
    /\ fault' = IF ~r THEN "read" ELSE IF ~w THEN "write" ELSE "none"
    /\ UNCHANGED <<results, sections, analysisCache, now, response, blocked, stored,
                   viewer, reports, selectedReport, currentView, chat>>

\* POST /api/upload without a file: 400 and nothing else
UploadNoFile ==
    /\ lastOp' = Op("uploadNoFile", "", 0, 0, "", FALSE)
    /\ ret' = RetStatus(400)
    /\ fault' = "none"
    /\ UNCHANGED <<results, sections, analysisCache, now, response, blocked, stored,
                   viewer, others>>

\* GET /api/pdfs: 200 with what readDB gave
GetPdfs(r) ==
    /\ lastOp' = Op("getPdfs", "", 0, 0, "", TRUE)
    /\ ret' = RetList(200, readDB(r))
    /\ fault' = IF r THEN "none" ELSE "read"
    /\ UNCHANGED <<results, sections, analysisCache, now, response, blocked, stored,
                   viewer, others>>

UploadAny == \E r, w \in BOOLEAN : Upload(r, w)
GetPdfsAny == \E r \in BOOLEAN : GetPdfs(r)

NextServer ==
    \/ Tick
    \/ UploadAny
    \/ UploadNoFile
    \/ GetPdfsAny

\* the server under uploads and listings at any clock values
SpecServer == Init /\ [][NextServer]_vars

\* --------------------------------------------------- ESGDashboard: the upload
\* loadReportsAndSections: the list the server answers becomes the reports
\* state, in the server's order; a failed fetch leaves the state as it was.
\* up: the fetch got an ok answer
LoadReportsAndSections(up, r) ==
    /\ reports' = IF up THEN readDB(r) ELSE reports
    /\ lastOp' = Op("loadReportsAndSections", "", 0, 0, "", up)
    /\ ret' = NoRet
    /\ fault' = IF up /\ ~r THEN "read" ELSE "none"
    /\ UNCHANGED <<results, sections, analysisCache, now, response, blocked, stored,
                   viewer, server, uploaded, selectedReport, currentView, chat>>

\* handleUploadSuccess, called by UploadModal with the file the server has
\* answered 200 for: the text is extracted, the reports are loaded again, and
\* reports[0] of the render the handler was created in is selected, if there
\* is one. x: extractPdfText resolved
HandleUploadSuccess(x, up, r) ==
    /\ uploaded # NoUpload
    /\ currentView = "dashboard"
    /\ uploaded' = NoUpload
    /\ IF x
       THEN /\ reports' = IF up THEN readDB(r) ELSE reports
            /\ IF Len(reports) > 0
               THEN /\ selectedReport' = reports[1]
                    /\ currentView' = "pdf"
               ELSE UNCHANGED <<selectedReport, currentView>>
       ELSE UNCHANGED <<reports, selectedReport, currentView>>
    /\ lastOp' = Op("handleUploadSuccess", "", 0, 0, "", x)
    /\ ret' = NoRet
    /\ fault' = IF x /\ up /\ ~r THEN "read" ELSE "none"
    /\ UNCHANGED <<results, sections, analysisCache, now, response, blocked, stored,
                   viewer, server, chat>>

LoadAny == \E up, r \in BOOLEAN : LoadReportsAndSections(up, r)
UploadSuccessAny == \E x, up, r \in BOOLEAN : HandleUploadSuccess(x, up, r)

NextUpload ==
    \/ Tick
    \/ UploadAny
    \/ LoadAny
    \/ UploadSuccessAny

\* a dashboard that loads its reports and uploads new ones
SpecUpload == Init /\ [][NextUpload]_vars

\* --------------------------------------------------------- AIChatbot: actions
\* messages a conversation may reach
MaxMessages == 5

\* what the user types
Inputs == {"", " ", "hi", "why"}

\* input.trim() === "": the input is empty or white space
IsBlank(input) == input \in {"", " "}

Message(role, content) == [role |-> role, content |-> content]

\* the greeting the isOpen effect sets
Greeting == <<Message("assistant", "Hello!")>>

\* the round button: setIsOpen(true), and the effect on isOpen sets the
\* messages to the greeting
OpenChat ==
    /\ ~isOpen
    /\ isOpen' = TRUE
    /\ messages' = Greeting
    /\ lastOp' = Op("openChat", "", 0, 0, "", TRUE)
    /\ ret' = NoRet
    /\ fault' = "none"
    /\ UNCHANGED <<results, sections, analysisCache, now, response, blocked, stored,
                   viewer, server, dashboard, isTyping, request>>

\* the X button: setIsOpen(false); the component stays mounted with its state
CloseChat ==
    /\ isOpen
    /\ isOpen' = FALSE
    /\ lastOp' = Op("closeChat", "", 0, 0, "", TRUE)
    /\ ret' = NoRet
    /\ fault' = "none"
    /\ UNCHANGED <<results, sections, analysisCache, now, response, blocked, stored,
                   viewer, server, dashboard, messages, isTyping, request>>

\* handleSend up to its await (it returns at once on an empty input or while
\* a reply is awaited): the call is given the messages with the user's
\* appended, which the handler keeps as newMessages
HandleSend(input) ==
    /\ isOpen
    /\ ~(IsBlank(input) \/ isTyping)
    /\ Len(messages) + 2 <= MaxMessages
    /\ LET newMessages == Append(messages, Message("user", input))
       IN /\ messages' = newMessages
          /\ request' = [newMessages |-> newMessages]
    /\ isTyping' = TRUE
    /\ lastOp' = Op("handleSend", "", 0, 0, "", TRUE)
    /\ ret' = NoRet
    /\ fault' = "none"
    /\ UNCHANGED <<results, sections, analysisCache, now, response, blocked, stored,
                   viewer, server, dashboard, isOpen>>

\* handleSend resumes; answered: callDeepSeek resolved
ReplyArrives(answered) ==
    /\ request # NoRequest
    /\ messages' = IF answered
                   THEN Append(request.newMessages, Message("assistant", "response"))
                   ELSE messages
    /\ isTyping' = FALSE
    /\ request' = NoRequest
    /\ lastOp' = Op("replyArrives", "", 0, 0, "", answered)
    /\ ret' = NoRet
    /\ fault' = "none"
    /\ UNCHANGED <<results, sections, analysisCache, now, response, blocked, stored,
                   viewer, server, dashboard, isOpen>>

NextChat ==
    \/ OpenChat
    \/ CloseChat
    \/ \E input \in Inputs : HandleSend(input)
    \/ \E answered \in BOOLEAN : ReplyArrives(answered)

\* the chat window under sends, replies, closing and opening
SpecChat == Init /\ [][NextChat]_vars

\* ------------------------------------------------------------------ claims
\* the label of a record agrees with its score under the threshold of 55
Consistent(rec) == (rec.classification = "Major") <=> (rec.confidenceScore > 55)

\* C1: the record getAnalysisResult returns has classification Major iff its
\* confidenceScore is above 55, whatever label the stored record carries.
C1_GetRecomputesClassification ==
    (lastOp.op = "getAnalysisResult" /\ ret.value # NoRec) => Consistent(ret.value)

\* how often reportId occurs in the member lists of all sections together
Memberships(secs, reportId) ==
    Cardinality({p \in (1..Len(secs)) \X (1..Cardinality(ReportIds) + MaxSections) :
                    /\ p[2] <= Len(secs[p[1]].reports)
                    /\ secs[p[1]].reports[p[2]] = reportId})

\* C2: no report id is in the member lists of two sections, nor twice in one.
C2_AtMostOneSection ==
    \A r \in ReportIds : Memberships(sections, r) <= 1

\* removeFromAllSections(reportId), then reportId appended to the member list
\* of the first section with that id unless it is already there
MoveToSection(secs, reportId, sectionId) ==
    LET cleared == removeReportFromAllSections(secs, reportId)
        i == FindSection(cleared, sectionId)
    IN IF Includes(cleared[i].reports, reportId) THEN cleared
       ELSE [cleared EXCEPT ![i] = Section(cleared[i].id, Append(cleared[i].reports, reportId))]

\* C3: a call addReportToSection(r, s) that returns normally for an existing
\* section s leaves the sections as removeFromAllSections(r) followed by a
\* deduplicated append of r to s does, and r is a member of s afterwards.
C3_AddIsRemoveThenAppend ==
    [][(/\ lastOp'.op = "addReportToSection"
        /\ lastOp'.ok
        /\ FindSection(sections, lastOp'.sectionId) # 0)
       => /\ sections' = MoveToSection(sections, lastOp'.reportId, lastOp'.sectionId)
          /\ Includes(sections'[FindSection(sections, lastOp'.sectionId)].reports,
                      lastOp'.reportId)]_vars

\* C4: for every analyzed report, the label on its dashboard card, the group
\* the dashboard puts it in, the labels the detail popup shows for its cached
\* analysis and the classification held in that cached analysis are the same
\* (stated for the analyses whose label analyzeESGReport set from the score).
C4_LabelsAgreeAcrossViews ==
    \A id \in ReportIds :
        (/\ results[id] # NoRec
         /\ analysisCache[id] # NoOutput
         /\ analysisCache[id].confidence_score = results[id].confidenceScore
         /\ analysisCache[id].classification
               = (IF analysisCache[id].confidence_score > 70 THEN "Major" ELSE "Minor"))
        => LET report == LoadReport(results, sections, id)
               card == ESGCardClassification(report)
           IN /\ majorReports(report) <=> card = "Major"
              /\ minorReports(report) <=> card = "Minor"
              /\ getGreenwashingRisk(analysisCache[id].confidence_score) = card
              /\ getOverallClassification(analysisCache[id].confidence_score) = card
              /\ analysisCache[id].classification = card

\* the AnalysisResult handleAnalyzeClick hands to saveAnalysisResult
RecordOf(output) == AnalysisResult(output.confidence_score, output.classification)

\* C5: the analysis analyzeESGReport returns, and the record persisted from
\* it, do not change when the reply's confidence_score and classification
\* change; the score is the one computed from the flagged statements.
C5_UpstreamScoreDiscarded ==
    (lastOp.op = "analyzeESGReport" /\ ret.kind = "analysis") =>
        /\ ret.value.confidence_score
              = calculateGreenwashingScore(response.flagged_statements)
        /\ \A c \in ModelScores, l \in Labels :
              LET other == analyzeESGReport([response EXCEPT !.confidence_score = c,
                                                               !.classification = l])
              IN /\ other.confidence_score = ret.value.confidence_score
                 /\ other.classification = ret.value.classification
                 /\ \A id \in ReportIds :
                       saveAnalysisResult(EmptyResults, id, RecordOf(other))
                         = saveAnalysisResult(EmptyResults, id, RecordOf(ret.value))

\* C6: when a storage write of handleAnalyzeClick has thrown, the viewer does
\* not show that analysis.
C6_FailedSaveNotShown ==
    (/\ lastOp.op = "handleAnalyzeClick"
     /\ ~lastOp.ok
     /\ lastOp.label # ""
     /\ mounted
     /\ fileId = lastOp.reportId)
    => geminiOutput # [confidence_score |-> lastOp.score, classification |-> lastOp.label]

\* C7: every record getAllAnalysisResults returns has classification Major
\* iff its confidenceScore is above 55, whatever the stored blob holds.
C7_GetAllConsistent ==
    lastOp.op = "getAllAnalysisResults" =>
        \A id \in ReportIds : ret.value[id] # NoRec => Consistent(ret.value[id])

\* getAllAnalysisResults has returned a record whose stored label disagrees
\* with its score
C7_Witness ==
    /\ lastOp.op = "getAllAnalysisResults"
    /\ \E id \in ReportIds :
          /\ results[id] # NoRec
          /\ ~Consistent(results[id])
          /\ ret.value[id].confidenceScore = results[id].confidenceScore

\* C8: starting from an empty store, every record of the persisted mapping
\* has classification Major iff its confidenceScore is above 55, whatever
\* labels the callers of saveAnalysisResult supplied.
C8_PersistedConsistent ==
    \A id \in ReportIds : results[id] # NoRec => Consistent(results[id])

\* a save whose caller-supplied label disagrees with the score has committed
C8_Witness ==
    /\ lastOp.op = "saveAnalysisResult"
    /\ lastOp.ok
    /\ (lastOp.label = "Major") # (lastOp.score > 55)
    /\ results[lastOp.reportId] # NoRec

RECURSIVE RawScore(_)
RawScore(items) ==
    IF items = <<>> THEN 10
    ELSE RawScore(Tail(items))
         + (IF Head(items) = "Major" THEN 15 ELSE IF Head(items) = "Minor" THEN 5 ELSE 0)

ReferenceScore(items) ==
    IF items = <<>> THEN 0
    ELSE IF RawScore(items) <= 100 THEN RawScore(items) ELSE 100

\* C10: for every array of statements, calculateGreenwashingScore is 0 if the
\* array is empty and otherwise min(10 + 15*majorCount + 5*minorCount, 100),
\* entries with any other risk level counting for nothing.
C10_ScoreIsReference ==
    (lastOp.op = "calculateGreenwashingScore" /\ response.flagged_statements.present)
    => ret.value = ReferenceScore(response.flagged_statements.items)

\* the score of an array whose weighted sum exceeds the cap has been computed
C10_Witness ==
    /\ lastOp.op = "calculateGreenwashingScore"
    /\ response.flagged_statements.present
    /\ RawScore(response.flagged_statements.items) > 100
    /\ ret.value = 100

\* C11: for every array of statements, calculateGreenwashingScore returns an
\* integer between 0 and 100, both included.
C11_ScoreInRange ==
    (lastOp.op = "calculateGreenwashingScore")
    => ret.kind = "number" /\ ret.value \in 0..100

\* the score of the longest array, every entry Major, has been computed
C11_Witness ==
    /\ lastOp.op = "calculateGreenwashingScore"
    /\ response.flagged_statements.present
    /\ Len(response.flagged_statements.items) = MaxLen
    /\ CountLevel(response.flagged_statements.items, "Major") = MaxLen
    /\ ret.value = 100

\* the array with entries i and j exchanged
Swap(items, i, j) ==
    [k \in 1..Len(items) |-> IF k = i THEN items[j] ELSE IF k = j THEN items[i] ELSE items[k]]

\* n copies of a risk level
RECURSIVE Copies(_, _)
Copies(level, n) == IF n = 0 THEN <<>> ELSE <<level>> \o Copies(level, n - 1)

\* the one array that stands for the multiset of items: its Major entries,
\* then its Minor entries, then the rest
Canonical(items) ==
    Copies("Major", CountLevel(items, "Major"))
    \o Copies("Minor", CountLevel(items, "Minor"))
    \o Copies("Other", Len(items) - CountLevel(items, "Major") - CountLevel(items, "Minor"))

\* C12: the score depends only on the multiset of risk levels: exchanging any
\* two entries of the array leaves the score unchanged (exchanges generate
\* every permutation), and the score is that of the canonical array of the
\* same multiset.
C12_ScoreIgnoresOrder ==
    (lastOp.op = "calculateGreenwashingScore" /\ response.flagged_statements.present)
    => LET items == response.flagged_statements.items
       IN /\ \A i, j \in 1..Len(items) :
                calculateGreenwashingScore(Statements(Swap(items, i, j))) = ret.value
          /\ calculateGreenwashingScore(Statements(Canonical(items))) = ret.value

\* the score of an uncapped array whose first and last entries differ and
\* that is not in canonical order has been computed
C12_Witness ==
    /\ lastOp.op = "calculateGreenwashingScore"
    /\ response.flagged_statements.present
    /\ Len(response.flagged_statements.items) >= 2
    /\ response.flagged_statements.items[1] = "Other"
    /\ response.flagged_statements.items[Len(response.flagged_statements.items)] = "Major"
    /\ ret.value < 100

\* the array with one more statement of the level placed after entry k
Insert(items, k, level) ==
    SubSeq(items, 1, k) \o <<level>> \o SubSeq(items, k + 1, Len(items))

\* C13: adding one more Major statement, or one more Minor statement, at any
\* place of the array never lowers the score; this includes the empty array
\* and arrays already at the cap.
C13_ScoreMonotone ==
    (lastOp.op = "calculateGreenwashingScore" /\ response.flagged_statements.present)
    => LET items == response.flagged_statements.items
       IN \A k \in 0..Len(items), level \in {"Major", "Minor"} :
             calculateGreenwashingScore(Statements(Insert(items, k, level))) >= ret.value

\* the score of an array that sits exactly at the cap has been computed, and
\* one more Major statement keeps it there
C13_Witness ==
    /\ lastOp.op = "calculateGreenwashingScore"
    /\ response.flagged_statements.present
    /\ RawScore(response.flagged_statements.items) = 100
    /\ ret.value = 100
    /\ calculateGreenwashingScore(
           Statements(Append(response.flagged_statements.items, "Major"))) = 100

\* the array without its null entries
WellFormed(items) == SelectSeq(items, LAMBDA e : e # "Null")

\* C14: calculateGreenwashingScore returns a number for every array, arrays
\* with malformed entries included, and never raises; a malformed entry is
\* only left out of the counts.
C14_ScoreNeverRaises ==
    (lastOp.op = "calculateGreenwashingScore" /\ response.flagged_statements.present)
    => /\ lastOp.ok
       /\ ret.kind = "number"
       /\ ret.value = ReferenceScore(WellFormed(response.flagged_statements.items))

\* the label saveAnalysisResult stores with a score
Normalized(score) == AnalysisResult(score, IF score > 55 THEN "Major" ELSE "Minor")

\* C15: when the analysis blob cannot be read as a mapping of records (its
\* text does not parse, it is not a mapping, or the entry asked for is not a
\* record), getAnalysisResult returns null and getAllAnalysisResults returns
\* the empty mapping, and neither raises.
C15_CorruptReadsAsEmpty ==
    /\ (/\ lastOp.op = "getAnalysisResult"
        /\ (stored # "object" \/ results[lastOp.reportId] = Scalar))
       => (lastOp.ok /\ ret.value = NoRec)
    /\ (/\ lastOp.op = "getAllAnalysisResults"
        /\ (stored # "object" \/ \E id \in ReportIds : results[id] = Scalar))
       => (lastOp.ok /\ ret.value = EmptyResults)

\* C16: saveAnalysisResult and deleteReport never drop a write silently: when
\* either returns normally its write is in the store (the saved record is
\* read back under its id; no record is read back under the deleted id), so
\* a write that cannot be committed makes the call raise.
C16_NoSilentDrop ==
    /\ (lastOp.op = "saveAnalysisResult" /\ lastOp.ok)
       => ReadOne(lastOp.reportId) = Normalized(lastOp.score)
    /\ (lastOp.op = "deleteReport" /\ lastOp.ok)
       => ReadOne(lastOp.reportId) = NoRec

\* the calls that modify the analysis store, the Reset Analysis button included
ModifyingOps == {"saveAnalysisResult", "deleteReport", "clearAllAnalysisResults",
                 "resetAndUpdateAllScores", "resetAnalysisClick"}

\* C17: a failed localStorage access is reported by every modifying call,
\* clearAllAnalysisResults and resetAndUpdateAllScores included: the call
\* does not return normally, and the Reset Analysis handler does not report
\* success.
C17_FailuresReported ==
    (lastOp.op \in ModifyingOps /\ fault # "none") => ~lastOp.ok

\* C18: saveAnalysisResult is atomic: when it raises, the persisted analysis
\* blob is exactly what it was before the call.
C18_FailedSaveChangesNothing ==
    [][(lastOp'.op = "saveAnalysisResult" /\ ~lastOp'.ok)
       => (results' = results /\ stored' = stored)]_vars

\* a save has raised on a failed write while the store holds a record, and
\* the record offered is not the one stored under its id
C18_Witness ==
    /\ lastOp.op = "saveAnalysisResult"
    /\ ~lastOp.ok
    /\ fault = "write"
    /\ stored = "object"
    /\ \E id \in ReportIds : results[id] \notin {NoRec, Scalar}
    /\ results[lastOp.reportId] # Normalized(lastOp.score)

\* C19: once resetAndUpdateAllScores or clearAllAnalysisResults has
\* returned, getAllAnalysisResults returns the empty mapping and
\* getAnalysisResult returns null for every id, whatever the store held.
C19_ResetReadsEmpty ==
    (lastOp.op \in {"resetAndUpdateAllScores", "clearAllAnalysisResults"})
    => /\ ReadAll = EmptyResults
       /\ \A id \in ReportIds : ReadOne(id) = NoRec

\* a reset has returned although storage is disabled and the blob still
\* holds a record
C19_Witness ==
    /\ lastOp.op = "resetAndUpdateAllScores"
    /\ blocked
    /\ fault = "write"
    /\ \E id \in ReportIds : results[id] \notin {NoRec, Scalar}

C21_DeleteRemovesEverywhere ==
    [][(lastOp'.op = "deleteReport" /\ lastOp'.ok)
       => LET id == lastOp'.reportId
          IN /\ results'[id] = NoRec
             /\ \A i \in 1..Len(sections') : ~Includes(sections'[i].reports, id)
             /\ \A other \in ReportIds \ {id} : results'[other] = results[other]
             /\ Len(sections') = Len(sections)
             /\ \A i \in 1..Len(sections) :
                   /\ sections'[i].id = sections[i].id
                   /\ sections'[i].reports = Without(sections[i].reports, id)]_vars

\* deleteReport has returned normally for a report that had a record and sat
\* in a section, while another report keeps its record and its section
C21_Witness ==
    /\ lastOp.op = "deleteReport"
    /\ lastOp.ok
    /\ lastOp.label # ""
    /\ lastOp.sectionId # 0
    /\ \E other \in ReportIds \ {lastOp.reportId} :
          /\ results[other] # NoRec
          /\ getSectionForReport(sections, other) # 0

Rendered(id) == LoadReport(ReadAll, sections, id)

\* the dashboard shows the report as not analyzed: in neither the Major nor
\* the Minor group, and its card without a classification
ShownNotAnalyzed(id) ==
    LET report == Rendered(id)
    IN /\ ~majorReports(report)
       /\ ~minorReports(report)
       /\ ESGCardClassification(report) = ""

\* C23: after Reset Analysis (resetAndUpdateAllScores, then the reload) the
\* dashboard shows every report as not analyzed, and a report shown so stays
\* shown so until an analysis of that report has been saved (what is shown
\* is read from the two blobs and the state of storage alone).
C23_ResetShowsNotAnalyzed ==
    [][/\ (lastOp'.op = "resetAnalysisClick")
          => \A id \in ReportIds : ShownNotAnalyzed(id)'
       /\ \/ UNCHANGED <<results, sections, blocked, stored>>
          \/ \A id \in ReportIds :
                (ShownNotAnalyzed(id) /\ ~ShownNotAnalyzed(id)')
                => (/\ lastOp'.op = "handleAnalyzeClick"
                    /\ lastOp'.reportId = id
                    /\ lastOp'.ok)]_vars

\* Reset Analysis has run for a profile in which a report had been analyzed:
\* its cached analysis is still there, its record is gone
C23_Witness ==
    /\ lastOp.op = "resetAnalysisClick"
    /\ \E id \in ReportIds : analysisCache[id] # NoOutput /\ ShownNotAnalyzed(id)

\* C24: the dashboard renders every report exactly once: under its custom
\* section if it has one, otherwise in exactly one of Major (record with
\* score above 55), Minor (record with score of at most 55) and Not Yet
\* Analyzed (no record).
C24_BucketsPartition ==
    \A id \in ReportIds :
        LET report == Rendered(id)
        IN /\ RenderCount(sections, report) = 1
           /\ report.sectionId # 0
              => ~(majorReports(report) \/ minorReports(report)
                   \/ uncategorizedReports(report))
           /\ report.sectionId = 0
              => /\ majorReports(report) <=> (report.analyzed /\ report.confidenceScore > 55)
                 /\ minorReports(report) <=> (report.analyzed /\ report.confidenceScore <= 55)
                 /\ uncategorizedReports(report) <=> ~report.analyzed

\* C25: any two entries of the server's list have distinct ids, whatever the
\* number and timing of the uploads, two within one clock millisecond included.
C25_UniqueIds ==
    \A i, j \in 1..Len(pdfs) : i # j => pdfs[i].id # pdfs[j].id

\* C26: when handleUploadSuccess has run for an upload without raising, the
\* selected report, whose id the viewer saves an analysis under, is the
\* report of the file that was just uploaded, whatever the report list held
\* before, an empty list included.
C26_UploadSelectsNewReport ==
    [][(lastOp'.op = "handleUploadSuccess" /\ lastOp'.ok)
       => /\ selectedReport' # NoReport
          /\ selectedReport'.file = uploaded
          /\ currentView' = "pdf"]_vars

\* C27: once deleteReport(id) has returned, browser storage holds no analysis
\* of id, neither the record nor the cached analysis of the viewer, so the
\* viewer opened on id afterwards shows no saved analysis.
C27_NoStaleAnalysis ==
    [][/\ (lastOp'.op = "deleteReport" /\ lastOp'.ok)
          => /\ results'[lastOp'.reportId] = NoRec
             /\ analysisCache'[lastOp'.reportId] = NoOutput
       /\ (lastOp.op = "deleteReport" /\ lastOp.ok /\ ~mounted /\ mounted'
           /\ fileId' = lastOp.reportId)
          => geminiOutput' = NoOutput]_vars

\* C28: an analysis started by handleAnalyzeClick ends, and when it has ended
\* isExtracting and isAnalyzing are both false, whether the extraction, the
\* model call or the save succeeded or failed: the Analyze button is enabled
\* again.
C28_AnalysisEnds ==
    (pc \in {"extracting", "analyzing"})
        ~> (pc = "idle" /\ ~isExtracting /\ ~isAnalyzing)

C28_Witness ==
    /\ lastOp.op = "handleAnalyzeClick"
    /\ ~lastOp.ok
    /\ mounted
    /\ pc = "idle"
    /\ ~isExtracting
    /\ ~isAnalyzing

\* C29: the list a GET /api/pdfs answers holds the entry of every upload the
\* server has answered with 200 before it, whatever the order of the requests
\* (and so no entry listed once is missing later).
C29_AckedUploadsListed ==
    lastOp.op = "getPdfs"
        => \A n \in acked : \E i \in 1..Len(ret.list) : ret.list[i].file = n

\* C30: opening the chat sets the conversation to the greeting alone, and
\* while the chat is open a conversation that holds the greeting alone is
\* changed by nothing but a message the user sends: a reply to a request sent
\* before the chat was closed does not change it.
C30_ReopenedChatKeepsGreeting ==
    [][/\ (~isOpen /\ isOpen') => messages' = Greeting
       /\ (isOpen /\ isOpen' /\ messages = Greeting /\ messages' # messages)
          => lastOp'.op = "handleSend"]_vars

====
